---- MODULE Spec2Model ----
(***************************************************************************)
(* Model of src/tcp_client.py: the adaptive polling scheduler              *)
(* (MonitorThread.monitor_thread_loop / check_all_airports,                *)
(* AirportState.call_api_and_process) and the proximity callback           *)
(* (MonitorThread.prox_callback) with its per-flight "logged" flag.        *)
(*                                                                         *)
(* Time is wall-clock time in whole seconds (time.time()).  Distances are  *)
(* in tenths of a nautical mile, so the source's 2.5 nm is 25; altitudes   *)
(* are in feet.  The analysis engine (adsb_actions) and the remote query   *)
(* service are external: the outcome of a request, the capture timestamp   *)
(* of a batch and the callbacks the engine delivers for it are inputs.     *)
(***************************************************************************)
EXTENDS Integers, Sequences, FiniteSets, TLC

\* ---------------------------------------------------------------- constants
\* src/tcp_client.py:16-21 (module-level constants)
LOW_FREQ_DELAY == 60
API_RATE_LIMIT == 1
DEACTIVATE_SECS == 30
\* 2.5 nm, in tenths of a nautical mile
INNER_PROX_THRESH == 25
INNER_PROX_ALT == 2500
\* time.sleep(1) of monitor_thread_loop: the tick quantum
TICK_SLEEP == 1

\* ------------------------------------------------------------------- bounds
\* seconds of wall-clock time explored after the start of the program
Horizon == 31
\* number of proximity callbacks the engine delivers in one run
MaxCallbacks == 2
\* number of requests in one run that fail or take as long as the rate limit
MaxFaults == 1

\* time.time() when the program starts: any value of the epoch clock, which
\* is far beyond LOW_FREQ_DELAY, so that last_checked = 0 makes a location due
StartTime == LOW_FREQ_DELAY + 1
MaxTime == StartTime + Horizon

\* the rules of the yaml file that carry a latlongring, in file order
Rules == <<"a1", "a2">>
AirportNames == {Rules[i] : i \in DOMAIN Rules}
\* rulebody['conditions']['latlongring'] of a rule: a ring, a value that is
\* false in a condition (None, an empty list), or no such key
RingKinds == {"ring", "empty", "absent"}
\* the rule names of a yaml file, in file order
YamlNames == <<"a1", "a2", "a3">>
\* the yaml files of up to Len(YamlNames) rules: each rule with a ring, with
\* a false latlongring or with none
YamlFiles ==
    UNION {{[i \in 1..n |-> [name |-> YamlNames[i], ring |-> k[i]]] :
               k \in [1..n -> RingKinds]} : n \in 1..Len(YamlNames)}
\* yaml_data['rules'] when every rule carries a latlongring
DefaultYaml == [i \in DOMAIN Rules |-> [name |-> Rules[i], ring |-> "ring"]]
Flights == {"A", "B", "C"}
\* the <<flight, flight2>> arguments the engine calls prox_callback with
Pairs == {<<"A", "B">>, <<"B", "A">>, <<"A", "C">>}
\* seconds a request takes: less than the rate limit, or as long as it
Durations == {0, API_RATE_LIMIT}
\* capture timestamps (the 'now' field) of the records of a data file
Stamps == {1, 2}
\* observed <<separation, altitude delta>> of a pair: inside both inner
\* thresholds, at the distance threshold, at the altitude threshold
Samples == {<<20, 2000>>, <<25, 2000>>, <<20, 2500>>}

\* the threads the engine delivers callbacks from, when it is concurrent
Threads == {"t1", "t2"}

NoTime == 0 - 1
\* flight.flags has no 'note' key
NoNote == "none"
NoCallback == [f1 |-> "none"]

VARIABLES
    mainpc,         \* position of __main__: "start", "adding", "live", "replay";
                    \* "crashed" after an uncaught exception in replay mode,
                    \* "exited" and "raised" after the interrupt handler
    now,            \* time.time()
    thread_running, \* MonitorThread.thread_running
    akeys,          \* keys of MonitorThread.airports, in insertion order
    airports,       \* MonitorThread.airports: name -> AirportState fields
    spc,            \* position of the monitor thread: "off", "visit",
                    \* "request", "ingest"; "dead" after an uncaught
                    \* exception ended the thread
    idx,            \* position of check_all_airports' for loop in akeys
    query_ctr,      \* check_all_airports' query_ctr
    start_time,     \* call_api_and_process' start_time
    logged,         \* flights whose flags['logged'] is True
    event_dict,     \* MonitorThread.event_dict: lastloc.now -> Event
    event_file,     \* lines written to MonitorThread.event_file
    ncb,            \* history: number of callbacks delivered so far
    nfault,         \* history: number of requests that failed or were slow
    last_cb,        \* history: arguments of the callback just delivered
    last_issue,     \* history: the time the latest query was issued
    quiet_issue,    \* history, per location: the time its latest query was
                    \* issued, while the location has stayed quiet since
    queried,        \* history: locations queried in the current tick
    deactivated,    \* history: locations deactivated in the current tick
    replayed,       \* the event state of a replay-mode run fed the same
                    \* callbacks (lock-step shadow of the live run)
    cb_pc,          \* per delivering thread: its position in prox_callback
    cb_arg,         \* per delivering thread: the arguments of its call
    cb_has_logged,  \* per delivering thread: prox_callback's has_logged
    dumped,         \* the events dump_events has written to the log stream
    event_file_closed, \* MonitorThread.event_file has been closed
    logfile_closed, \* all_data_file (every AirportState.logfile) is closed
    yaml_rules,     \* yaml_data['rules'], in file order
    rulepos         \* position of the for loop of line 230 in yaml_rules

vars == <<mainpc, now, thread_running, akeys, airports, spc, idx, query_ctr,
          start_time, logged, event_dict, event_file, ncb, nfault,
          last_cb, last_issue, quiet_issue, queried, deactivated, replayed,
          cb_pc, cb_arg, cb_has_logged, dumped, event_file_closed,
          logfile_closed, yaml_rules, rulepos>>

schedvars == <<spc, idx, query_ctr, start_time>>
eventvars == <<logged, event_dict, event_file>>
histvars == <<nfault, last_issue, quiet_issue, queried, deactivated>>
concvars == <<cb_pc, cb_arg, cb_has_logged>>
exitvars == <<dumped, event_file_closed, logfile_closed>>
cfgvars == <<yaml_rules, rulepos>>

\* ------------------------------------------------------------------ helpers
EmptyFn == [x \in {} |-> 0]

\* d[k] = v of a Python dict
DictPut(d, k, v) == [x \in DOMAIN d \cup {k} |-> IF x = k THEN v ELSE d[x]]

\* AirportState.__init__
NewAirportState == [active |-> FALSE, last_checked |-> 0, last_activated |-> 0]

\* Event.__init__ and the fields Event.to_str renders
Event(flight, flight2, airport, dist, ts) ==
    [f1 |-> flight, f2 |-> flight2, airport |-> airport, dist |-> dist,
     now |-> ts]

\* the event state: flags['logged'] of every flight, event_dict, event_file
EventState(lg, ed, ef) == [logged |-> lg, event_dict |-> ed, event_file |-> ef]

\* ------------------------------------------------------- MonitorThread code
\* activate_airport without line 118: the activation time is not stamped
activate_airport_nostamp(running, table, name, t) ==
    IF ~running
    THEN table
    ELSE [table EXCEPT ![name].active = TRUE]

\* activate_raises without the guard of lines 112-113
activate_raises_unguarded(running, table, name) == name \notin DOMAIN table

\* activate_airport: the airports table after the call
activate_airport(running, table, name, t) ==
    IF ~running
    THEN table
    ELSE [table EXCEPT ![name].active = TRUE, ![name].last_activated = t]

\* activate_airport raises: line 117 subscripts the table with a name that is
\* not a key (KeyError); before run() line 113 returns first
activate_raises(running, table, name) == running /\ name \notin DOMAIN table

\* deactivate_airport: the airports table after the call
deactivate_airport(running, table, name) ==
    IF ~running
    THEN table
    ELSE [table EXCEPT ![name].active = FALSE]

\* InnerThreshold with <= for <
InnerThreshold_inclusive(dist, alt) ==
    dist <= INNER_PROX_THRESH /\ alt <= INNER_PROX_ALT

\* the test of line 171
InnerThreshold(dist, alt) == dist < INNER_PROX_THRESH /\ alt < INNER_PROX_ALT

\* the result of a prox_callback that raised: nothing was changed
Raised(table, es) == [airports |-> table, events |-> es, raised |-> TRUE]

\* the result of a prox_callback that returned
Returned(table, es) == [airports |-> table, events |-> es, raised |-> FALSE]

\* prox_callback with a missing note dropped silently instead of raised
prox_callback_lenient(running, table, es, t, flight, flight2, airport, dist, alt, ts) ==
    IF airport = NoNote
    THEN Returned(table, es)
    ELSE IF activate_raises(running, table, airport)
    THEN Raised(table, es)
    ELSE LET activated == activate_airport(running, table, airport, t)
         IN  IF InnerThreshold(dist, alt) /\ flight \notin es.logged
             THEN LET event == Event(flight, flight2, airport, dist, ts)
                  IN  Returned(activated,
                               EventState(es.logged \cup {flight},
                                          DictPut(es.event_dict, ts, event),
                                          Append(es.event_file, event)))
             ELSE Returned(activated, es)

\* prox_callback without line 177: the flag is never set
prox_callback_noflag(running, table, es, t, flight, flight2, airport, dist, alt, ts) ==
    IF airport = NoNote \/ activate_raises(running, table, airport)
    THEN Raised(table, es)
    ELSE LET activated == activate_airport(running, table, airport, t)
         IN  IF InnerThreshold(dist, alt) /\ flight \notin es.logged
             THEN LET event == Event(flight, flight2, airport, dist, ts)
                  IN  Returned(activated,
                               EventState(es.logged,
                                          DictPut(es.event_dict, ts, event),
                                          Append(es.event_file, event)))
             ELSE Returned(activated, es)

\* prox_callback with the thread_running guard of activate_airport moved to
\* the top of the handler: nothing is recorded before run()
prox_callback_guarded(running, table, es, t, flight, flight2, airport, dist, alt, ts) ==
    IF airport = NoNote \/ activate_raises(running, table, airport)
    THEN Raised(table, es)
    ELSE IF ~running
    THEN Returned(table, es)
    ELSE LET activated == activate_airport(running, table, airport, t)
         IN  IF InnerThreshold(dist, alt) /\ flight \notin es.logged
             THEN LET event == Event(flight, flight2, airport, dist, ts)
                  IN  Returned(activated,
                               EventState(es.logged \cup {flight},
                                          DictPut(es.event_dict, ts, event),
                                          Append(es.event_file, event)))
             ELSE Returned(activated, es)

\* prox_callback, lines 157-182, run at time t with thread_running = running
\* and the airports table = table on the event state es: the table and the
\* event state after the call, and whether the call raised.  airport is
\* flight.flags['note'], or NoNote when the flags have no such key
prox_callback(running, table, es, t, flight, flight2, airport, dist, alt, ts) ==
    IF airport = NoNote
    THEN \* lines 158-162: the KeyError is logged and raised again
         Raised(table, es)
    ELSE IF activate_raises(running, table, airport)
    THEN \* line 166
         Raised(table, es)
    ELSE LET activated == activate_airport(running, table, airport, t)
         IN  IF InnerThreshold(dist, alt)
             THEN IF flight \in es.logged
                  THEN Returned(activated, es)
                  ELSE LET event == Event(flight, flight2, airport, dist, ts)
                       IN  Returned(activated,
                                    EventState(es.logged \cup {flight},
                                               DictPut(es.event_dict, ts, event),
                                               Append(es.event_file, event)))
             ELSE Returned(activated, es)

\* the engine calls prox_callback(flight, flight2): one step of the thread
\* that runs adsb_actions.loop.  airport is flight.flags['note'], dist and alt
\* the separation of the two last positions, ts is flight.lastloc.now
DeliverCallback(flight, flight2, airport, dist, alt, ts) ==
    LET live == prox_callback(thread_running, airports,
                              EventState(logged, event_dict, event_file),
                              now, flight, flight2, airport, dist, alt, ts)
        shadow == prox_callback(FALSE, EmptyFn, replayed,
                                now, flight, flight2, airport, dist, alt, ts)
    IN  /\ airports' = live.airports
        /\ logged' = live.events.logged
        /\ event_dict' = live.events.event_dict
        /\ event_file' = live.events.event_file
        /\ replayed' = shadow.events
        /\ ncb' = ncb + 1
        /\ last_cb' = [f1 |-> flight, f2 |-> flight2, airport |-> airport,
                       dist |-> dist, alt |-> alt, now |-> ts,
                       was_logged |-> flight \in logged,
                       raised |-> live.raised]

\* ----------------------------------------------------------------- __main__
Init ==
    /\ mainpc = "start"
    /\ now = StartTime
    /\ thread_running = FALSE
    /\ akeys = << >>
    /\ airports = EmptyFn
    /\ spc = "off"
    /\ idx = 1
    /\ query_ctr = 0
    /\ start_time = NoTime
    /\ logged = {}
    /\ event_dict = EmptyFn
    /\ event_file = << >>
    /\ ncb = 0
    /\ nfault = 0
    /\ last_cb = NoCallback
    /\ last_issue = NoTime
    /\ quiet_issue = EmptyFn
    /\ queried = {}
    /\ deactivated = {}
    /\ replayed = EventState({}, EmptyFn, << >>)
    /\ cb_pc = [t \in Threads |-> "idle"]
    /\ cb_arg = [t \in Threads |-> NoCallback]
    /\ cb_has_logged = [t \in Threads |-> FALSE]
    /\ dumped = {}
    /\ event_file_closed = FALSE
    /\ logfile_closed = FALSE
    /\ yaml_rules = DefaultYaml
    /\ rulepos = 1

\* lines 223-226: a data file was given
StartReplay ==
    /\ mainpc = "start"
    /\ mainpc' = "replay"
    /\ UNCHANGED <<now, thread_running, akeys, airports, schedvars, eventvars,
                   ncb, last_cb, histvars, replayed,
                   concvars, exitvars, cfgvars>>

\* line 227: no data file
StartLive ==
    /\ mainpc = "start"
    /\ mainpc' = "adding"
    /\ UNCHANGED <<now, thread_running, akeys, airports, schedvars, eventvars,
                   ncb, last_cb, histvars, replayed,
                   concvars, exitvars, cfgvars>>

\* lines 230-234 and add_airport: the next rule of the yaml file has a
\* latlongring that is true in the condition of line 231
add_airport ==
    /\ mainpc = "adding"
    /\ rulepos <= Len(yaml_rules)
    /\ yaml_rules[rulepos].ring = "ring"
    /\ LET name == yaml_rules[rulepos].name
       IN  /\ akeys' = Append(akeys, name)
           /\ airports' = DictPut(airports, name, NewAirportState)
           /\ quiet_issue' = DictPut(quiet_issue, name, NoTime)
    /\ rulepos' = rulepos + 1
    /\ UNCHANGED <<mainpc, now, thread_running, schedvars, eventvars, ncb,
                   last_cb, nfault, last_issue, queried, deactivated,
                   replayed,
                   concvars, exitvars, yaml_rules>>

\* line 231: the latlongring of the next rule is false in the condition
\* (None, an empty list); the rule is passed over
skip_rule ==
    /\ mainpc = "adding"
    /\ rulepos <= Len(yaml_rules)
    /\ yaml_rules[rulepos].ring = "empty"
    /\ rulepos' = rulepos + 1
    /\ UNCHANGED <<mainpc, now, thread_running, akeys, airports, schedvars,
                   eventvars, ncb, last_cb, histvars, replayed,
                   concvars, exitvars, yaml_rules>>

\* lines 231 and 235-236: the next rule has no 'latlongring' key; the
\* subscript raises KeyError, which the except of line 235 catches outside
\* the for loop: the error is logged and the loop is over
abort_rules ==
    /\ mainpc = "adding"
    /\ rulepos <= Len(yaml_rules)
    /\ yaml_rules[rulepos].ring = "absent"
    /\ rulepos' = Len(yaml_rules) + 1
    /\ UNCHANGED <<mainpc, now, thread_running, akeys, airports, schedvars,
                   eventvars, ncb, last_cb, histvars, replayed,
                   concvars, exitvars, yaml_rules>>

\* line 239 and MonitorThread.run
run ==
    /\ mainpc = "adding"
    /\ rulepos > Len(yaml_rules)
    /\ mainpc' = "live"
    /\ thread_running' = TRUE
    /\ spc' = "visit"
    /\ idx' = 1
    /\ query_ctr' = 0
    /\ UNCHANGED <<now, akeys, airports, start_time, eventvars, ncb, last_cb,
                   histvars, replayed,
                   concvars, exitvars, cfgvars>>

\* line 226: adsb_actions.loop(iterator_data=...) delivers one callback.
\* When prox_callback raises, the exception leaves loop() and ends the main
\* thread at line 226
ReplayCallback ==
    /\ mainpc = "replay"
    /\ ncb < MaxCallbacks
    /\ \E p \in Pairs, a \in AirportNames \cup {NoNote}, s \in Samples,
          ts \in Stamps :
          DeliverCallback(p[1], p[2], a, s[1], s[2], ts)
    /\ mainpc' = IF last_cb'.raised THEN "crashed" ELSE mainpc
    /\ UNCHANGED <<now, thread_running, akeys, schedvars, histvars,
                   concvars, exitvars, cfgvars>>

\* ----------------------------------------------------- check_all_airports
Cur == akeys[idx]

\* DeactivateDue with the window forgotten
DeactivateDue_nowindow(a, t) == a.last_activated < t

\* line 143
DeactivateDue(a, t) == a.last_activated + DEACTIVATE_SECS < t

\* line 149
LowFreqDue(a, t) == t - a.last_checked > LOW_FREQ_DELAY

\* lines 142-145: an active location whose window has passed
Deactivate ==
    /\ spc = "visit"
    /\ idx <= Len(akeys)
    /\ airports[Cur].active
    /\ DeactivateDue(airports[Cur], now)
    /\ airports' = deactivate_airport(thread_running, airports, Cur)
    /\ idx' = idx + 1
    /\ deactivated' = deactivated \cup {Cur}
    /\ UNCHANGED <<mainpc, now, thread_running, akeys, spc, query_ctr,
                   start_time, eventvars, ncb, last_cb, nfault, last_issue, quiet_issue,
                   queried, replayed,
                   concvars, exitvars, cfgvars>>

\* lines 148-149: a quiet location that is not due
Skip ==
    /\ spc = "visit"
    /\ idx <= Len(akeys)
    /\ ~airports[Cur].active
    /\ ~LowFreqDue(airports[Cur], now)
    /\ idx' = idx + 1
    /\ UNCHANGED <<mainpc, now, thread_running, akeys, airports, spc,
                   query_ctr, start_time, eventvars, ncb, last_cb, histvars,
                   replayed,
                   concvars, exitvars, cfgvars>>

\* lines 146 and 150, then lines 35-44: the request is sent
IssueQuery ==
    /\ spc = "visit"
    /\ idx <= Len(akeys)
    /\ \/ airports[Cur].active /\ ~DeactivateDue(airports[Cur], now)
       \/ ~airports[Cur].active /\ LowFreqDue(airports[Cur], now)
    /\ start_time' = now
    /\ spc' = "request"
    /\ last_issue' = now
    /\ quiet_issue' = [quiet_issue EXCEPT ![Cur] =
                          IF airports[Cur].active THEN NoTime ELSE now]
    /\ queried' = queried \cup {Cur}
    /\ UNCHANGED <<mainpc, now, thread_running, akeys, airports, idx,
                   query_ctr, eventvars, ncb, last_cb, nfault, deactivated,
                   replayed,
                   concvars, exitvars, cfgvars>>

\* lines 44-48: the request or the decoding of its body raises at once;
\* call_api_and_process returns, then line 147 or 151
QueryFail ==
    /\ spc = "request"
    /\ nfault < MaxFaults
    /\ nfault' = nfault + 1
    /\ query_ctr' = query_ctr + 1
    /\ idx' = idx + 1
    /\ spc' = "visit"
    /\ start_time' = NoTime
    /\ UNCHANGED <<mainpc, now, thread_running, akeys, airports,
                   eventvars, ncb, last_cb, last_issue, quiet_issue, queried, deactivated,
                   replayed,
                   concvars, exitvars, cfgvars>>

\* lines 44-56: the body of the response decodes as JSON (line 45 raises
\* nothing) but is not the expected object: it has no 'ac' key, or records
\* and no 'now' key.  The subscript of line 50 or 56 raises KeyError outside
\* the try of lines 43-48; nothing catches it and the monitor thread ends
QueryMalformed ==
    /\ spc = "request"
    /\ spc' = "dead"
    /\ start_time' = NoTime
    /\ UNCHANGED <<mainpc, now, thread_running, akeys, airports, idx,
                   query_ctr, eventvars, ncb, last_cb, histvars, replayed,
                   concvars, exitvars, cfgvars>>

\* lines 44-59: the response arrives after d seconds
QueryResponse ==
    /\ spc = "request"
    /\ \E d \in Durations :
          /\ now + d <= MaxTime
          /\ d > 0 => nfault < MaxFaults
          /\ now' = now + d
          /\ nfault' = IF d > 0 THEN nfault + 1 ELSE nfault
    /\ spc' = "ingest"
    /\ UNCHANGED <<mainpc, thread_running, akeys, airports, idx, query_ctr,
                   start_time, eventvars, ncb, last_cb, last_issue, quiet_issue,
                   queried, deactivated, replayed,
                   concvars, exitvars, cfgvars>>

\* line 60: adsb_actions.loop(string_data=...) delivers one callback.  The
\* batch holds the positions inside the latlongring of the location being
\* queried (line 38), so the flights of the batch carry its name as their
\* note; line 56 stamps every position of the batch with the capture time
\* of the response, which is the time the service answered.  When
\* prox_callback raises, the exception leaves loop(), call_api_and_process,
\* check_all_airports and monitor_thread_loop, none of which catches it
LiveCallback ==
    /\ spc = "ingest"
    /\ ncb < MaxCallbacks
    /\ \E p \in Pairs, a \in {Cur, NoNote}, s \in Samples :
          DeliverCallback(p[1], p[2], a, s[1], s[2], now)
    /\ spc' = IF last_cb'.raised THEN "dead" ELSE spc
    /\ quiet_issue' = [quiet_issue EXCEPT ![Cur] = NoTime]
    /\ UNCHANGED <<mainpc, now, thread_running, akeys, idx, query_ctr,
                   start_time, nfault,
                   last_issue, queried, deactivated,
                   concvars, exitvars, cfgvars>>

\* the sleep of lines 63-64
RateLimitSleep(start, done) ==
    IF done - start < API_RATE_LIMIT THEN API_RATE_LIMIT - (done - start) ELSE 0

\* lines 61-64: loop() has returned; then line 147 or 151
FinishQuery ==
    /\ spc = "ingest"
    /\ now + RateLimitSleep(start_time, now) <= MaxTime
    /\ airports' = [airports EXCEPT ![Cur].last_checked = now]
    /\ now' = now + RateLimitSleep(start_time, now)
    /\ query_ctr' = query_ctr + 1
    /\ idx' = idx + 1
    /\ spc' = "visit"
    /\ start_time' = NoTime
    /\ last_cb' = NoCallback
    /\ UNCHANGED <<mainpc, thread_running, akeys, eventvars, ncb, histvars,
                   replayed,
                   concvars, exitvars, cfgvars>>

\* lines 153-155 and 132-134: check_all_airports returns, the loop sleeps
\* when no query was issued and calls check_all_airports again
monitor_thread_loop ==
    /\ spc = "visit"
    /\ idx > Len(akeys)
    /\ LET nap == IF query_ctr = 0 THEN TICK_SLEEP ELSE 0
       IN  /\ now + nap <= MaxTime
           /\ now' = now + nap
    /\ idx' = 1
    /\ query_ctr' = 0
    /\ queried' = {}
    /\ deactivated' = {}
    /\ UNCHANGED <<mainpc, thread_running, akeys, airports, spc, start_time,
                   eventvars, ncb, last_cb, nfault, last_issue, quiet_issue, replayed,
                   concvars, exitvars, cfgvars>>

Next ==
    \/ StartReplay
    \/ StartLive
    \/ add_airport
    \/ run
    \/ ReplayCallback
    \/ Deactivate
    \/ Skip
    \/ IssueQuery
    \/ QueryFail
    \/ QueryMalformed
    \/ QueryResponse
    \/ LiveCallback
    \/ FinishQuery
    \/ monitor_thread_loop

Spec == Init /\ [][Next]_vars

\* -------------------------------------------------------------- startup
\* the start of a live run on any of the yaml files, up to run()
InitStartup ==
    /\ mainpc = "start"
    /\ now = StartTime
    /\ thread_running = FALSE
    /\ akeys = << >>
    /\ airports = EmptyFn
    /\ spc = "off"
    /\ idx = 1
    /\ query_ctr = 0
    /\ start_time = NoTime
    /\ logged = {}
    /\ event_dict = EmptyFn
    /\ event_file = << >>
    /\ ncb = 0
    /\ nfault = 0
    /\ last_cb = NoCallback
    /\ last_issue = NoTime
    /\ quiet_issue = EmptyFn
    /\ queried = {}
    /\ deactivated = {}
    /\ replayed = EventState({}, EmptyFn, << >>)
    /\ cb_pc = [t \in Threads |-> "idle"]
    /\ cb_arg = [t \in Threads |-> NoCallback]
    /\ cb_has_logged = [t \in Threads |-> FALSE]
    /\ dumped = {}
    /\ event_file_closed = FALSE
    /\ logfile_closed = FALSE
    /\ yaml_rules \in YamlFiles
    /\ rulepos = 1

NextStartup ==
    \/ StartLive
    \/ add_airport
    \/ skip_rule
    \/ abort_rules
    \/ run

SpecStartup == InitStartup /\ [][NextStartup]_vars

\* ------------------------------------------------------- the endless run
\* The scheduler compares differences of clock values only (lines 63, 143,
\* 149), and a difference above LOW_FREQ_DELAY is as good as any other above
\* it.  So the origin of the clock can be moved forward: whenever the clock
\* has advanced, every clock value is moved back by the advance, and a value
\* that would become negative becomes 0, whose distance to StartTime is
\* above both LOW_FREQ_DELAY and DEACTIVATE_SECS.  The run then goes on for
\* ever with the clock values of a bounded window.  The timestamps of stored
\* events are never compared with the clock and are left alone.
ShiftTime(x, k) == IF x - k > 0 THEN x - k ELSE 0

\* the clock origin moves forward by the time that has passed
ShiftEpoch ==
    /\ now > StartTime
    /\ LET k == now - StartTime
       IN  /\ airports' =
                 [a \in DOMAIN airports |->
                     [active |-> airports[a].active,
                      last_checked |-> ShiftTime(airports[a].last_checked, k),
                      last_activated |->
                          ShiftTime(airports[a].last_activated, k)]]
           /\ start_time' = IF start_time = NoTime
                             THEN NoTime ELSE ShiftTime(start_time, k)
    /\ now' = StartTime
    /\ last_issue' = NoTime
    /\ quiet_issue' = [a \in DOMAIN quiet_issue |-> NoTime]
    /\ UNCHANGED <<mainpc, thread_running, akeys, spc, idx, query_ctr, nfault,
                   eventvars, ncb, last_cb, queried, deactivated, replayed,
                   concvars, exitvars, cfgvars>>

NextFair ==
    \/ now = StartTime /\ Next
    \/ ShiftEpoch

\* every thread takes its next step when it has one: the loop of
\* monitor_thread_loop is scheduled, and every request terminates
SpecFair == Init /\ [][NextFair]_vars /\ WF_vars(NextFair)

\* ------------------------------------------------------------ the interrupt
\* d.values() of a Python dict
DictValues(d) == {d[k] : k \in DOMAIN d}

\* the process is running: the handler has not been entered
Running == mainpc \in {"start", "adding", "live", "replay"}

\* lines 98-103: SIGINT arrives (the handler is registered at line 217,
\* before the mode is chosen).  dump_events logs every value of event_dict,
\* event_file is closed, then line 102 takes the first AirportState of the
\* table to close the log file they share: with an empty table the index
\* raises IndexError and lines 102-103 have no effect.  mainpc becomes
\* "exited" when sys.exit(0) is reached and "raised" when the handler raised;
\* what the interrupted code does with the exception is not followed
handle_exit ==
    /\ Running
    /\ dumped' = DictValues(event_dict)
    /\ event_file_closed' = TRUE
    /\ IF akeys = << >>
       THEN /\ mainpc' = "raised"
            /\ UNCHANGED logfile_closed
       ELSE /\ logfile_closed' = TRUE
            /\ mainpc' = "exited"
    /\ UNCHANGED <<now, thread_running, akeys, airports, schedvars, eventvars,
                   ncb, last_cb, histvars, replayed, concvars, cfgvars>>

\* the program and the interrupt
NextExit ==
    \/ Running /\ Next
    \/ handle_exit

SpecExit == Init /\ [][NextExit]_vars

\* ------------------------------------------- concurrent callback delivery
\* prox_callback holds no lock outside activate_airport, so when the engine
\* delivers callbacks from several threads the statements of two calls
\* interleave.  One action per statement group, for the thread t.

\* the live program after run(), as callbacks start to arrive
InitConc ==
    /\ mainpc = "live"
    /\ now = StartTime
    /\ thread_running = TRUE
    /\ akeys = Rules
    /\ airports = [a \in AirportNames |-> NewAirportState]
    /\ spc = "visit"
    /\ idx = 1
    /\ query_ctr = 0
    /\ start_time = NoTime
    /\ logged = {}
    /\ event_dict = EmptyFn
    /\ event_file = << >>
    /\ ncb = 0
    /\ nfault = 0
    /\ last_cb = NoCallback
    /\ last_issue = NoTime
    /\ quiet_issue = [a \in AirportNames |-> NoTime]
    /\ queried = {}
    /\ deactivated = {}
    /\ replayed = EventState({}, EmptyFn, << >>)
    /\ cb_pc = [t \in Threads |-> "idle"]
    /\ cb_arg = [t \in Threads |-> NoCallback]
    /\ cb_has_logged = [t \in Threads |-> FALSE]
    /\ dumped = {}
    /\ event_file_closed = FALSE
    /\ logfile_closed = FALSE
    /\ yaml_rules = DefaultYaml
    /\ rulepos = Len(DefaultYaml) + 1

concframe == <<mainpc, now, thread_running, akeys, schedvars, nfault, last_cb,
               last_issue, quiet_issue, queried, deactivated, replayed,
               exitvars, cfgvars>>

\* lines 157-166: the call is entered, the note is read, activate_airport
\* runs under the lock
cb_activate(t) ==
    /\ cb_pc[t] = "idle"
    /\ ncb < MaxCallbacks
    /\ \E p \in Pairs, a \in AirportNames, s \in Samples, ts \in Stamps :
          /\ cb_arg' = [cb_arg EXCEPT ![t] =
                           [f1 |-> p[1], f2 |-> p[2], airport |-> a,
                            dist |-> s[1], alt |-> s[2], now |-> ts,
                            was_logged |-> p[1] \in logged,
                            raised |-> FALSE]]
          /\ airports' = activate_airport(thread_running, airports, a, now)
    /\ ncb' = ncb + 1
    /\ cb_pc' = [cb_pc EXCEPT ![t] = "test"]
    /\ UNCHANGED <<concframe, eventvars, cb_has_logged>>

\* lines 168-172: the thresholds are tested and flags['logged'] is read
cb_test(t) ==
    /\ cb_pc[t] = "test"
    /\ IF InnerThreshold(cb_arg[t].dist, cb_arg[t].alt)
       THEN /\ cb_has_logged' =
                  [cb_has_logged EXCEPT ![t] = cb_arg[t].f1 \in logged]
            /\ cb_pc' = [cb_pc EXCEPT ![t] = "branch"]
       ELSE /\ cb_pc' = [cb_pc EXCEPT ![t] = "idle"]
            /\ UNCHANGED cb_has_logged
    /\ UNCHANGED <<concframe, airports, eventvars, ncb, cb_arg>>

\* lines 173-176: return when has_logged
cb_branch(t) ==
    /\ cb_pc[t] = "branch"
    /\ cb_pc' = [cb_pc EXCEPT ![t] =
                    IF cb_has_logged[t] THEN "idle" ELSE "set"]
    /\ UNCHANGED <<concframe, airports, eventvars, ncb, cb_arg,
                   cb_has_logged>>

\* line 177: flight.flags['logged'] = True
cb_set(t) ==
    /\ cb_pc[t] = "set"
    /\ logged' = logged \cup {cb_arg[t].f1}
    /\ cb_pc' = [cb_pc EXCEPT ![t] = "store"]
    /\ UNCHANGED <<concframe, airports, event_dict, event_file, ncb, cb_arg,
                   cb_has_logged>>

\* lines 180-181: self.event_dict[flight.lastloc.now] = event
cb_store(t) ==
    /\ cb_pc[t] = "store"
    /\ LET c == cb_arg[t]
       IN  event_dict' = DictPut(event_dict, c.now,
                                 Event(c.f1, c.f2, c.airport, c.dist, c.now))
    /\ cb_pc' = [cb_pc EXCEPT ![t] = "write"]
    /\ UNCHANGED <<concframe, airports, logged, event_file, ncb, cb_arg,
                   cb_has_logged>>

\* line 182: self.event_file.write
cb_write(t) ==
    /\ cb_pc[t] = "write"
    /\ LET c == cb_arg[t]
       IN  event_file' = Append(event_file,
                                Event(c.f1, c.f2, c.airport, c.dist, c.now))
    /\ cb_pc' = [cb_pc EXCEPT ![t] = "idle"]
    /\ UNCHANGED <<concframe, airports, logged, event_dict, ncb, cb_arg,
                   cb_has_logged>>

NextConc ==
    \E t \in Threads :
        \/ cb_activate(t)
        \/ cb_test(t)
        \/ cb_branch(t)
        \/ cb_set(t)
        \/ cb_store(t)
        \/ cb_write(t)

SpecConc == InitConc /\ [][NextConc]_vars

\* ------------------------------- activation from another execution context
\* check_all_airports reads airport.active and airport.last_activated at
\* lines 142-143 without the lock, and takes it only inside
\* deactivate_airport; a thread other than the monitor thread that calls
\* activate_airport can run between the two.  The visit of an active
\* location is therefore two steps here, and the activation a third.

\* lines 142-143: the location is active and its window has passed; the
\* scheduler is about to call deactivate_airport
deactivate_check ==
    /\ spc = "visit"
    /\ idx <= Len(akeys)
    /\ airports[Cur].active
    /\ DeactivateDue(airports[Cur], now)
    /\ spc' = "deactivating"
    /\ UNCHANGED <<mainpc, now, thread_running, akeys, airports, idx,
                   query_ctr, start_time, eventvars, ncb, last_cb, histvars,
                   replayed, concvars, exitvars, cfgvars>>

\* lines 144-145 and 120-126: deactivate_airport writes under the lock
deactivate_write ==
    /\ spc = "deactivating"
    /\ airports' = deactivate_airport(thread_running, airports, Cur)
    /\ idx' = idx + 1
    /\ spc' = "visit"
    /\ deactivated' = deactivated \cup {Cur}
    /\ UNCHANGED <<mainpc, now, thread_running, akeys, query_ctr, start_time,
                   eventvars, ncb, last_cb, nfault, last_issue, quiet_issue,
                   queried, replayed, concvars, exitvars, cfgvars>>

\* lines 111-118: another thread calls activate_airport(name); the two
\* writes are made under the lock
ext_activate ==
    /\ ncb < MaxCallbacks
    /\ \E a \in DOMAIN airports :
          airports' = activate_airport(thread_running, airports, a, now)
    /\ ncb' = ncb + 1
    /\ UNCHANGED <<mainpc, now, thread_running, akeys, schedvars, eventvars,
                   last_cb, histvars, replayed, concvars, exitvars, cfgvars>>

NextRace ==
    \/ deactivate_check
    \/ deactivate_write
    \/ ext_activate
    \/ Skip
    \/ IssueQuery
    \/ QueryFail
    \/ QueryResponse
    \/ FinishQuery
    \/ monitor_thread_loop

SpecRace == InitConc /\ [][NextRace]_vars

\* ------------------------------------------------------------------ claims
\* a step that delivers a callback; last_cb' holds its arguments
CallbackStep == ncb' = ncb + 1

\* a step that issues a query; now is the time it is issued at
IssueStep == spc = "visit" /\ spc' = "request"

\* the event a callback with the arguments c records
EventOf(c) == Event(c.f1, c.f2, c.airport, c.dist, c.now)

Inner(c) == c.dist < INNER_PROX_THRESH /\ c.alt < INNER_PROX_ALT

PairOf(e) == {e.f1, e.f2}

\* the first flight of the callback c carries a note
Tagged(c) == c.airport # NoNote

\* C1: any two consecutive outbound queries, for the same or different
\* locations and whatever their outcome, are issued at least API_RATE_LIMIT
\* seconds apart.
C1_QueriesSpaced ==
    [][(IssueStep /\ last_issue # NoTime)
          => now - last_issue >= API_RATE_LIMIT]_vars

\* C2: a callback (of a flight that carries a note, as in all of C2-C9; the
\* other case is C12) inside both inner thresholds whose first flight is not
\* yet flagged stores exactly one event (one line appended to the event file, the
\* event put in the in-memory log under its timestamp) and sets the flag; a
\* callback inside the thresholds whose first flight is flagged stores
\* nothing; and no step clears a flag, so every later identical callback
\* stores nothing.
C2_RecordedOnce ==
    [][/\ CallbackStep =>
            LET c == last_cb'
            IN  /\ (Tagged(c) /\ Inner(c) /\ c.f1 \notin logged) =>
                      /\ event_file' = Append(event_file, EventOf(c))
                      /\ c.now \in DOMAIN event_dict'
                      /\ event_dict'[c.now] = EventOf(c)
                      /\ \A k \in DOMAIN event_dict' \ {c.now} :
                            k \in DOMAIN event_dict
                            /\ event_dict'[k] = event_dict[k]
                      /\ logged' = logged \cup {c.f1}
                /\ (Inner(c) /\ c.f1 \in logged) =>
                      /\ event_file' = event_file
                      /\ event_dict' = event_dict
                      /\ logged' = logged
       /\ logged \subseteq logged'
       /\ Len(event_file') <= Len(event_file) + 1]_vars

\* C2 witness: the second of two identical callbacks found the flag set and
\* stored nothing, the event of the first is the only one
C2_Witness ==
    /\ ncb = 2
    /\ last_cb.f1 # "none"
    /\ Tagged(last_cb)
    /\ Inner(last_cb)
    /\ last_cb.was_logged
    /\ Len(event_file) = 1
    /\ event_file[1] = EventOf(last_cb)

\* C3: after any sequence of callbacks a pair of flights {A, B} has at most
\* one stored event, whichever flight is passed first.
C3_OneEventPerPair ==
    \A i, j \in DOMAIN event_file :
        PairOf(event_file[i]) = PairOf(event_file[j]) => i = j

\* C4: every pair of flights reported inside both inner thresholds has a
\* stored event for that pair (the event file is only appended to, so it is
\* enough to look right after each callback).
C4_EveryEncounterLogged ==
    (last_cb.f1 # "none" /\ Tagged(last_cb) /\ Inner(last_cb)) =>
        \E i \in DOMAIN event_file :
            PairOf(event_file[i]) = {last_cb.f1, last_cb.f2}

\* C5: a location goes from active to quiet only in the scheduler's visit of
\* that location, at a time when now - last_activated >= DEACTIVATE_SECS, and
\* that step issues no query; no location is both deactivated and queried in
\* one tick.
C5_DeactivatedOnlyWhenStale ==
    [][/\ \A a \in DOMAIN airports :
             (airports[a].active /\ ~airports'[a].active) =>
                /\ spc = "visit" /\ idx <= Len(akeys) /\ akeys[idx] = a
                /\ now - airports[a].last_activated >= DEACTIVATE_SECS
                /\ a \notin queried
                /\ ~IssueStep
                /\ last_issue' = last_issue
                /\ idx' = idx + 1
       /\ deactivated' \cap queried' = {}]_vars

\* C5 witness: a location has been deactivated in the current tick
C5_Witness ==
    \E a \in deactivated :
        ~airports[a].active /\ airports[a].last_activated > 0

\* C6: for a location that stayed quiet in between, two consecutive queries
\* are issued more than LOW_FREQ_DELAY minus one tick quantum apart, whatever
\* the outcome of the first.
C6_QuietInterval ==
    [][(IssueStep /\ quiet_issue[akeys[idx]] # NoTime)
          => now - quiet_issue[akeys[idx]] > LOW_FREQ_DELAY - TICK_SLEEP]_vars

\* C7: a query that fails sets the location's last_checked to the time of the
\* attempt and forwards no record to the engine.
C7_FailedQueryCounts ==
    [][(spc = "request" /\ spc' = "visit") =>
          /\ airports'[akeys[idx]].last_checked >= start_time
          /\ ncb' = ncb
          /\ UNCHANGED eventvars]_vars

\* C8: a callback that does not meet the inner thresholds stores no event and
\* sets no flag, and in live mode leaves the owning location active with
\* last_activated = now.
C8_NearMissOnlyActivates ==
    [][CallbackStep =>
          LET c == last_cb'
          IN  (Tagged(c) /\ ~Inner(c)) =>
                 /\ UNCHANGED eventvars
                 /\ mainpc = "live" =>
                       /\ c.airport \in DOMAIN airports'
                       /\ airports'[c.airport].active
                       /\ airports'[c.airport].last_activated = now]_vars

\* C8 witness: two callbacks of the live run missed the inner thresholds,
\* nothing is stored or flagged and the location is active
C8_Witness ==
    /\ mainpc = "live"
    /\ ncb = 2
    /\ last_cb.f1 # "none"
    /\ Tagged(last_cb)
    /\ ~Inner(last_cb)
    /\ event_file = << >>
    /\ logged = {}
    /\ airports[last_cb.airport].active
    /\ airports[last_cb.airport].last_activated = now

\* C9: the live run stores the events a replay-mode run stores when it is
\* fed the same callbacks, and the replay-mode run issues no query and
\* changes no location state.
C9_ReplayEquivalent ==
    /\ EventState(logged, event_dict, event_file) = replayed
    /\ mainpc = "replay" =>
          /\ spc = "off"
          /\ last_issue = NoTime
          /\ airports = EmptyFn
          /\ ~thread_running

\* C9 witness: a live run that has stored two events
C9_Witness ==
    /\ mainpc = "live"
    /\ Len(event_file) = 2
    /\ replayed.event_file = event_file

\* C10: when two calls of prox_callback for the same un-flagged first
\* flight, both inside the inner thresholds, run concurrently, exactly one
\* event is stored for that flight, in every interleaving.
C10_ConcurrentIdempotent ==
    (/\ \A t \in Threads :
           cb_pc[t] = "idle" /\ cb_arg[t].f1 # "none" /\ Inner(cb_arg[t])
     /\ \A t, u \in Threads : cb_arg[t].f1 = cb_arg[u].f1)
    => \A t \in Threads :
          Cardinality({i \in DOMAIN event_file :
                          event_file[i].f1 = cb_arg[t].f1}) = 1

\* C11: once the interrupt has been handled, in live mode with locations, in
\* live mode with no location added and in replay mode alike, the handler
\* has dumped the in-memory event log, closed the event file and closed the
\* raw-data log file, and has reached the exit of the process.
C11_ShutdownClosesAll ==
    ~Running =>
        /\ dumped = DictValues(event_dict)
        /\ event_file_closed
        /\ logfile_closed
        /\ mainpc = "exited"

\* C12: a callback whose first flight has no note in its flags raises to its
\* caller and changes nothing: the location table, the logged flags, the
\* in-memory event log and the event file are as before the call.
C12_MissingNoteFatal ==
    [][(CallbackStep /\ last_cb'.airport = NoNote) =>
          /\ last_cb'.raised
          /\ airports' = airports
          /\ UNCHANGED eventvars]_vars

\* C12 witness: the first callback of a live run was inside the inner
\* thresholds and had no note; it raised, every location is still quiet and
\* nothing is flagged or stored
C12_Witness ==
    /\ mainpc = "live"
    /\ last_cb.f1 # "none"
    /\ last_cb.airport = NoNote
    /\ last_cb.raised
    /\ Inner(last_cb)
    /\ \A a \in DOMAIN airports : ~airports[a].active
    /\ logged = {}
    /\ event_file = << >>
    /\ event_dict = EmptyFn
    /\ spc = "dead"

\* a callback without a note has ended the thread that delivered it (C12)
CallbackCrashed == last_cb.f1 # "none" /\ last_cb.raised

\* C13: in a live run every configured location is queried again and again,
\* whatever the outcomes of the queries: after a network error, a timeout or
\* a malformed response body the scheduler loop keeps running.
C13_FailuresKeepLiveness ==
    \A a \in AirportNames :
        []<>(\/ mainpc # "live"
             \/ CallbackCrashed
             \/ (spc = "request" /\ idx <= Len(akeys) /\ akeys[idx] = a))

\* C14: once the scheduler is started, every rule of the yaml file that has
\* a latlongring is in the location table, wherever the rules without one
\* stand in the file; the rules without one are not in the table.
C14_OnlyBadRuleSkipped ==
    mainpc = "live" =>
        /\ thread_running
        /\ \A i \in DOMAIN yaml_rules :
              yaml_rules[i].ring = "ring" <=>
                 yaml_rules[i].name \in DOMAIN airports

\* C15: every query issued for an active location is issued less than
\* DEACTIVATE_SECS after its last activation: at DEACTIVATE_SECS or more,
\* equality included, the scheduler deactivates the location instead.
C15_DeactivateAtWindow ==
    [][(IssueStep /\ airports[akeys[idx]].active)
          => now - airports[akeys[idx]].last_activated < DEACTIVATE_SECS]_vars

\* C16: while the scheduler is running, a callback whose first flight carries
\* the name of a location of the table returns normally and leaves that
\* location active with last_activated = now, whether the thresholds are not
\* met, the event is recorded or the event is suppressed; it changes nothing
\* else in the table.
C16_CallbackActivates ==
    [][(CallbackStep /\ thread_running /\ Tagged(last_cb')
          /\ last_cb'.airport \in DOMAIN airports) =>
          LET c == last_cb'
          IN  /\ ~c.raised
              /\ DOMAIN airports' = DOMAIN airports
              /\ airports'[c.airport].active
              /\ airports'[c.airport].last_activated = now
              /\ airports'[c.airport].last_checked =
                    airports[c.airport].last_checked
              /\ \A a \in DOMAIN airports \ {c.airport} :
                    airports'[a] = airports[a]]_vars

\* C16 witness: the second callback of a live run was inside the thresholds
\* and suppressed, its flight being flagged; the owning location is active
\* as of now and the other location was never touched
C16_Witness ==
    /\ mainpc = "live"
    /\ ncb = 2
    /\ last_cb.f1 # "none"
    /\ Tagged(last_cb)
    /\ Inner(last_cb)
    /\ last_cb.was_logged
    /\ Len(event_file) = 1
    /\ airports[last_cb.airport].active
    /\ airports[last_cb.airport].last_activated = now
    /\ \E a \in DOMAIN airports \ {last_cb.airport} :
          airports[a] = NewAirportState

\* C17: before run() has started the scheduler, the activation a callback
\* performs does nothing: the callback returns normally although the table
\* is empty or lacks the named location, the table is unchanged, and the
\* event is recorded as it is in a live run.
C17_ActivationNoopBeforeRun ==
    [][(CallbackStep /\ ~thread_running /\ Tagged(last_cb')) =>
          LET c == last_cb'
          IN  /\ ~c.raised
              /\ airports' = airports
              /\ (Inner(c) /\ c.f1 \notin logged) =>
                    /\ event_file' = Append(event_file, EventOf(c))
                    /\ c.now \in DOMAIN event_dict'
                    /\ event_dict'[c.now] = EventOf(c)
                    /\ logged' = logged \cup {c.f1}]_vars

\* C17 witness: run() was never called and the table is empty; a callback
\* naming a location has returned and its event is stored
C17_Witness ==
    /\ ~thread_running
    /\ airports = EmptyFn
    /\ last_cb.f1 # "none"
    /\ Tagged(last_cb)
    /\ last_cb.airport \notin DOMAIN airports
    /\ ~last_cb.raised
    /\ Inner(last_cb)
    /\ ~last_cb.was_logged
    /\ Len(event_file) >= 1
    /\ event_file[Len(event_file)] = EventOf(last_cb)

\* C18: a stored event is never updated or deleted: every event written to
\* the event file is still in the in-memory log, one entry per event, also
\* when several events carry the same timestamp.
C18_EventsNeverLost ==
    /\ \A i \in DOMAIN event_file :
          \E k \in DOMAIN event_dict : event_dict[k] = event_file[i]
    /\ Cardinality(DOMAIN event_dict) = Len(event_file)

\* C19: however an activation made by another thread interleaves with the
\* scheduler's visit of a location, the scheduler sets a location quiet only
\* when its last_activated, at the moment of the write, is at least
\* DEACTIVATE_SECS old.
C19_NoStaleDeactivation ==
    [][\A a \in DOMAIN airports :
          (airports[a].active /\ ~airports'[a].active) =>
              now - airports[a].last_activated >= DEACTIVATE_SECS]_vars

\* C20: in a live run no location stays active for ever: callbacks being
\* finitely many, a location that is active after the last of them is
\* eventually set quiet by the scheduler, whatever the outcomes of the
\* queries issued meanwhile.
C20_ActiveEventuallyQuiet ==
    \A a \in AirportNames :
        []<>(\/ mainpc # "live"
             \/ CallbackCrashed
             \/ ~airports[a].active)

====
